---- MODULE Spec2Model ----
(***************************************************************************)
(* Model of sync.py: the GitLab -> GitHub contribution sync.               *)
(*                                                                         *)
(* One run of main() clones the target repository into a temporary         *)
(* directory, creates a sync branch, reads the cursor from the state file, *)
(* streams the GitLab events after the cursor page by page, replays each   *)
(* as an empty commit, writes the advanced cursor, merges the sync branch  *)
(* into the target branch and pushes.  Every external command (git, HTTP)  *)
(* is one step and may fail; git itself refuses a merge of a branch that   *)
(* does not exist and a push that is not a fast-forward.                   *)
(*                                                                         *)
(* Time is counted in ticks, TicksPerSec ticks to the second, so that the  *)
(* sub-second part of created_at and its truncation are visible.           *)
(***************************************************************************)
EXTENDS Integers, Sequences, FiniteSets, TLC

\* ---------------------------------------------------------------- bounds
MaxEvents   == 3      \* events the source ever holds
MaxTick     == 4      \* last value of the clock
TicksPerSec == 2      \* resolution of created_at below one second
\* COMMITS_PER_PAGE is 100 in the program; scaled so that several pages occur
COMMITS_PER_PAGE == 2

\* ------------------------------------------------------ program constants
DAYS_LOOKBACK   == 365
SECONDS_PER_DAY == 86400

Procs   == {1, 2}     \* invocations of the script that may exist
Runners == {1}        \* invocations that run under Spec (one after another)

NoDate == -1          \* last_event_date = None
EmptySince == -2      \* start_date = '', what strip() makes of a blank state file

VARIABLES
    now,              \* wall clock, in ticks
    source,           \* GitLab: the user's pushed events, in creation order
    remote,           \* GitHub: the target branch, [log, file]
    pc,               \* position of each invocation in main()
    exit,             \* process exit status: -1 while running, 0 or 1
    err,              \* which error message the invocation printed
    envFault,         \* TRUE once the environment made a command of this run fail
    pushed,           \* TRUE once this run invoked 'git push'
    pushFailed,       \* TRUE once a 'git push' of any run has failed
    warned,           \* TRUE once this run printed a 'warn:' message
    DEFAULT_START_DATE, \* computed at import time of each invocation
    base,             \* the target branch as it was when the sync branch was created
    target,           \* local target branch of the clone, [log, file]
    sync,             \* local sync branch of the clone, [log, file]
    syncExists,       \* the sync branch exists in the clone
    head,             \* branch checked out in the clone
    workFile,         \* the state file in the working tree
    index,            \* the state file in the git index
    start_date,       \* cursor the run starts from
    page,             \* stream_gitlab_events: page
    buffer,           \* stream_gitlab_events: events of the current page not yet yielded
    commit_count,     \* sync_events_and_update_state: commit_count
    last_event_date,  \* sync_events_and_update_state: last_event_date
    fetched,          \* the events of all pages this run's stream has received
    writes            \* how many times this run has written the state file

envVars   == <<now, source>>
runVars   == <<pc, exit, err, envFault, pushed, pushFailed, warned, DEFAULT_START_DATE, base>>
cloneVars == <<target, sync, syncExists, head, workFile, index>>
loopVars  == <<start_date, page, buffer, commit_count, last_event_date,
               fetched, writes>>
vars      == <<now, source, remote, pc, exit, err, envFault, pushed, pushFailed,
               warned,
               DEFAULT_START_DATE, base, target, sync, syncExists, head, workFile,
               index, start_date, page, buffer, commit_count, last_event_date,
               fetched, writes>>

\* ------------------------------------------------------------------ data
Absent      == [kind |-> "absent", at |-> 0]
\* a state file that is there but empty or whitespace-only; 'at' is what
\* read_text().strip() returns for it
BlankFile == [kind |-> "blank", at |-> EmptySince]
CursorFile(c) == [kind |-> "cursor", at |-> c]
EmptyBranch == [log |-> <<>>, file |-> Absent]

MarkerCommit(d) == [kind |-> "marker", id |-> 0, at |-> d]
\* 'Merge synchronization branch <branch_name>': the commit names the branch
MergeCommit(name) == [kind |-> "merge", id |-> name, at |-> 0]

\* branch_name: sync/gitlab-<timestamp>-<uuid>, one per invocation
BranchName(p) == p

Min(a, b) == IF a < b THEN a ELSE b

\* replace(microsecond=0) / strftime without a fraction: drop the sub-second part
Truncate(t) == t - (t % TicksPerSec)

IsPrefix(s, t) == Len(s) <= Len(t) /\ SubSeq(t, 1, Len(s)) = s


\* ------------------------------------------------------------ GitLab API
\* DEFAULT_START_DATE: now, without microseconds, minus 365 days
DefaultStartDate(t) == Truncate(t) - DAYS_LOOKBACK * SECONDS_PER_DAY * TicksPerSec

\* mutant of EventsAfter: the request asks for sort=desc, newest first
EventsNewestFirst(since) ==
    LET all == SelectSeq(source, LAMBDA e : e.created_at > since)
    IN  [i \in 1..Len(all) |-> all[Len(all) + 1 - i]]

\* mutant of EventsAfter: the 'after' filter takes the event at the cursor
\* instant as well
EventsAtOrAfter(since) == SelectSeq(source, LAMBDA e : e.created_at >= since)

\* mutant of EventsAfter: the request carries no usable 'after' filter
EventsUnfiltered(since) == source

\* ?after=<since>&action=pushed&sort=asc : the events strictly after since,
\* oldest first (the source holds them in creation order)
EventsAfter(since) == SelectSeq(source, LAMBDA e : e.created_at > since)

\* &per_page=<COMMITS_PER_PAGE>&page=<n> : the n-th slice of the result
EventsPage(since, n) ==
    LET all == EventsAfter(since)
        lo  == (n - 1) * COMMITS_PER_PAGE + 1
        hi  == Min(n * COMMITS_PER_PAGE, Len(all))
    IN  SubSeq(all, lo, hi)

\* mutant of NextStartDate: the second is not added
NextStartDateNotAdvanced(last) == Truncate(last)

\* next_start_dt_utc: last_event_date + 1 second, microseconds dropped
NextStartDate(last) == Truncate(last + TicksPerSec)

\* commit_date: created_at formatted as YYYY-MM-DD HH:MM:SS
CommitDate(created_at) == Truncate(created_at)

\* git commit --allow-empty -m 'GitLab event ID: <id>' --date <commit_date>
EventCommit(e) == [kind |-> "event", id |-> e.id, at |-> CommitDate(e.created_at)]

\* ------------------------------------------------------------------- git
\* mutant of MergeNoFF: the merge reports success and merges nothing
MergeNothing(t, s, name) == t

\* mutant of MergeNoFF: a merge commit is made even when there is nothing to merge
MergeAlwaysCommits(t, s, name) ==
    [log |-> Append(s.log, MergeCommit(name)), file |-> s.file]

\* git merge --no-ff <sync> on the target branch: the commits the sync branch
\* has on top of the target, then a merge commit; nothing when there are none
MergeNoFF(t, s, name) ==
    IF s.log = t.log THEN t
    ELSE [log |-> Append(s.log, MergeCommit(name)), file |-> s.file]

\* git push origin <target>: the remote takes fast-forwards only
PushAccepted(local) == IsPrefix(remote.log, local.log)

\* ------------------------------------------------------------ environment
TypeOK ==
    /\ now \in 0..MaxTick
    /\ Len(source) <= MaxEvents
    /\ \A p \in Procs : exit[p] \in {-1, 0, 1}

\* no invocation has started
NothingRunning ==
    /\ pc = [p \in Procs |-> "start"]
    /\ exit = [p \in Procs |-> -1]
    /\ err = [p \in Procs |-> "none"]
    /\ envFault = [p \in Procs |-> FALSE]
    /\ pushed = [p \in Procs |-> FALSE]
    /\ pushFailed = FALSE
    /\ warned = [p \in Procs |-> FALSE]
    /\ DEFAULT_START_DATE = [p \in Procs |-> DefaultStartDate(0)]
    /\ base = [p \in Procs |-> EmptyBranch]
    /\ target = [p \in Procs |-> EmptyBranch]
    /\ sync = [p \in Procs |-> EmptyBranch]
    /\ syncExists = [p \in Procs |-> FALSE]
    /\ head = [p \in Procs |-> "none"]
    /\ workFile = [p \in Procs |-> Absent]
    /\ index = [p \in Procs |-> Absent]
    /\ start_date = [p \in Procs |-> 0]
    /\ page = [p \in Procs |-> 1]
    /\ buffer = [p \in Procs |-> <<>>]
    /\ commit_count = [p \in Procs |-> 0]
    /\ last_event_date = [p \in Procs |-> NoDate]
    /\ fetched = [p \in Procs |-> <<>>]
    /\ writes = [p \in Procs |-> 0]

Init ==
    /\ now = 0
    /\ source = <<>>
    /\ remote = EmptyBranch
    /\ NothingRunning

\* the three events of the tie scenario, in seconds after 10:00:00Z: at
\* 10:00:00Z, 10:00:05Z and 10:00:05Z
TiesSource ==
    << [id |-> 1, created_at |-> 0],
       [id |-> 2, created_at |-> 5 * TicksPerSec],
       [id |-> 3, created_at |-> 5 * TicksPerSec] >>

\* the target branch on GitHub comes with an empty state file
InitBlank ==
    /\ now = 0
    /\ source = <<>>
    /\ remote = [log |-> <<>>, file |-> BlankFile]
    /\ NothingRunning

\* the source already holds the events of the tie scenario
InitTies ==
    /\ now = 5 * TicksPerSec
    /\ source = TiesSource
    /\ remote = EmptyBranch
    /\ NothingRunning

\* time passes
Tick ==
    /\ now < MaxTick
    /\ now' = now + 1
    /\ UNCHANGED <<source, remote, runVars, cloneVars, loopVars>>

\* the user pushes to GitLab: a new event, stamped with the current time
NewEvent ==
    /\ Len(source) < MaxEvents
    /\ source' = Append(source, [id |-> Len(source) + 1, created_at |-> now])
    /\ UNCHANGED <<now, remote, runVars, cloneVars, loopVars>>

\* ------------------------------------------------------------- control
\* the run goes on at label l
Goto(p, l) ==
    /\ pc' = [pc EXCEPT ![p] = l]
    /\ UNCHANGED <<exit, err, envFault>>

\* an exception reaches 'except Exception' of main(): sys.exit(1).
\* msg names the 'error:' message printed on the way; env tells whether the
\* command failed by the environment's doing
Raise(p, msg, env) ==
    /\ pc' = [pc EXCEPT ![p] = "done"]
    /\ exit' = [exit EXCEPT ![p] = 1]
    /\ err' = [err EXCEPT ![p] = msg]
    /\ envFault' = [envFault EXCEPT ![p] = @ \/ env]

\* the branch that is checked out
HeadBranch(p) == IF head[p] = "sync" THEN sync[p] ELSE target[p]

\* mutant of CommitOnHead: the commit lands on the target branch, as if the run
\* had never left it
CommitOnTarget(p, c, f) ==
    /\ target' = [target EXCEPT ![p] =
                    [log |-> Append(target[p].log, c), file |-> f]]
    /\ UNCHANGED sync

\* git commit on the branch that is checked out
CommitOnHead(p, c, f) ==
    LET b == [log |-> Append(HeadBranch(p).log, c), file |-> f]
    IN  IF head[p] = "sync"
        THEN sync' = [sync EXCEPT ![p] = b] /\ UNCHANGED target
        ELSE target' = [target EXCEPT ![p] = b] /\ UNCHANGED sync

\* git checkout <branch>: the working tree and the index follow the branch
Checkout(p, name, b) ==
    /\ head' = [head EXCEPT ![p] = name]
    /\ workFile' = [workFile EXCEPT ![p] = b.file]
    /\ index' = [index EXCEPT ![p] = b.file]

\* ------------------------------------------------------------------ main
\* a new invocation of the script: module import, then main() enters the
\* temporary directory
Start(p) ==
    /\ pc[p] \in {"start", "done"}
    /\ pc' = [pc EXCEPT ![p] = "clone"]
    /\ exit' = [exit EXCEPT ![p] = -1]
    /\ err' = [err EXCEPT ![p] = "none"]
    /\ envFault' = [envFault EXCEPT ![p] = FALSE]
    /\ pushed' = [pushed EXCEPT ![p] = FALSE]
    /\ warned' = [warned EXCEPT ![p] = FALSE]
    /\ UNCHANGED pushFailed
    /\ DEFAULT_START_DATE' = [DEFAULT_START_DATE EXCEPT ![p] = DefaultStartDate(now)]
    /\ base' = [base EXCEPT ![p] = EmptyBranch]
    /\ target' = [target EXCEPT ![p] = EmptyBranch]
    /\ sync' = [sync EXCEPT ![p] = EmptyBranch]
    /\ syncExists' = [syncExists EXCEPT ![p] = FALSE]
    /\ head' = [head EXCEPT ![p] = "none"]
    /\ workFile' = [workFile EXCEPT ![p] = Absent]
    /\ index' = [index EXCEPT ![p] = Absent]
    /\ start_date' = [start_date EXCEPT ![p] = 0]
    /\ page' = [page EXCEPT ![p] = 1]
    /\ buffer' = [buffer EXCEPT ![p] = <<>>]
    /\ commit_count' = [commit_count EXCEPT ![p] = 0]
    /\ last_event_date' = [last_event_date EXCEPT ![p] = NoDate]
    /\ fetched' = [fetched EXCEPT ![p] = <<>>]
    /\ writes' = [writes EXCEPT ![p] = 0]
    /\ UNCHANGED <<envVars, remote>>

\* git clone <GITHUB_REPO_URL>
Clone(p) ==
    /\ pc[p] = "clone"
    /\ \E ok \in BOOLEAN :
         IF ok
         THEN /\ target' = [target EXCEPT ![p] = remote]
              /\ Checkout(p, "target", remote)
              /\ Goto(p, "fetch_origin")
         ELSE /\ Raise(p, "clone", TRUE)
              /\ UNCHANGED <<target, head, workFile, index>>
    /\ UNCHANGED <<envVars, remote, pushed, pushFailed, warned, DEFAULT_START_DATE, base,
                   sync, syncExists, loopVars>>

\* git fetch origin
FetchOrigin(p) ==
    /\ pc[p] = "fetch_origin"
    /\ \E ok \in BOOLEAN :
         IF ok THEN Goto(p, "checkout_target") ELSE Raise(p, "prepare", TRUE)
    /\ UNCHANGED <<envVars, remote, pushed, pushFailed, warned, DEFAULT_START_DATE, base,
                   cloneVars, loopVars>>

\* git checkout <TARGET_BRANCH>
CheckoutTarget(p) ==
    /\ pc[p] = "checkout_target"
    /\ \E ok \in BOOLEAN :
         IF ok
         THEN Checkout(p, "target", target[p]) /\ Goto(p, "pull")
         ELSE Raise(p, "prepare", TRUE) /\ UNCHANGED <<head, workFile, index>>
    /\ UNCHANGED <<envVars, remote, pushed, pushFailed, warned, DEFAULT_START_DATE, base,
                   target, sync, syncExists, loopVars>>

\* git pull origin <TARGET_BRANCH>: the fresh clone fast-forwards to the remote
Pull(p) ==
    /\ pc[p] = "pull"
    /\ \E ok \in BOOLEAN :
         IF ok
         THEN /\ target' = [target EXCEPT ![p] = remote]
              /\ Checkout(p, "target", remote)
              /\ Goto(p, "create_branch")
         ELSE /\ Raise(p, "prepare", TRUE)
              /\ UNCHANGED <<target, head, workFile, index>>
    /\ UNCHANGED <<envVars, remote, pushed, pushFailed, warned, DEFAULT_START_DATE, base,
                   sync, syncExists, loopVars>>

\* mutant of CreateBranch: 'git branch <branch_name>', which creates the branch
\* and leaves the target branch checked out
CreateBranchNoSwitch(p) ==
    /\ pc[p] = "create_branch"
    /\ \E ok \in BOOLEAN :
         IF ok
         THEN /\ sync' = [sync EXCEPT ![p] = HeadBranch(p)]
              /\ base' = [base EXCEPT ![p] = HeadBranch(p)]
              /\ syncExists' = [syncExists EXCEPT ![p] = TRUE]
              /\ UNCHANGED head
              /\ Goto(p, "read_state")
         ELSE /\ Raise(p, "branch", TRUE)
              /\ UNCHANGED <<sync, base, syncExists, head>>
    /\ UNCHANGED <<envVars, remote, pushed, pushFailed, warned, DEFAULT_START_DATE,
                   target, workFile, index, loopVars>>

\* git checkout -b <branch_name>
CreateBranch(p) ==
    /\ pc[p] = "create_branch"
    /\ \E ok \in BOOLEAN :
         IF ok
         THEN /\ sync' = [sync EXCEPT ![p] = HeadBranch(p)]
              /\ base' = [base EXCEPT ![p] = HeadBranch(p)]
              /\ syncExists' = [syncExists EXCEPT ![p] = TRUE]
              /\ head' = [head EXCEPT ![p] = "sync"]
              /\ Goto(p, "read_state")
         ELSE /\ Raise(p, "branch", TRUE)
              /\ UNCHANGED <<sync, base, syncExists, head>>
    /\ UNCHANGED <<envVars, remote, pushed, pushFailed, warned, DEFAULT_START_DATE,
                   target, workFile, index, loopVars>>

\* mutant of ReadState: the state file is looked for in the wrong place and is
\* never found
ReadStateNeverFound(p) ==
    /\ pc[p] = "read_state"
    /\ start_date' = [start_date EXCEPT ![p] = DEFAULT_START_DATE[p]]
    /\ page' = [page EXCEPT ![p] = 1]
    /\ Goto(p, "fetch_page")
    /\ UNCHANGED <<envVars, remote, pushed, pushFailed, warned, DEFAULT_START_DATE,
                   base, cloneVars, buffer, commit_count, last_event_date, fetched, writes>>

\* state_file_path.read_text().strip(), FileNotFoundError -> DEFAULT_START_DATE;
\* then the generator is created (its body starts at the first next())
ReadState(p) ==
    /\ pc[p] = "read_state"
    /\ \E ok \in BOOLEAN :
         IF ok
         THEN /\ start_date' = [start_date EXCEPT ![p] =
                    IF workFile[p].kind = "absent"
                    THEN DEFAULT_START_DATE[p] ELSE workFile[p].at]
              /\ page' = [page EXCEPT ![p] = 1]
              /\ Goto(p, "fetch_page")
         ELSE /\ Raise(p, "read", TRUE)
              /\ UNCHANGED <<start_date, page>>
    /\ UNCHANGED <<envVars, remote, pushed, pushFailed, warned, DEFAULT_START_DATE, base,
                   cloneVars, buffer, commit_count, last_event_date, fetched, writes>>

\* -------------------------------------------------- stream_gitlab_events
\* mutant of FetchPage: a failed request is reported and ends the stream
\* ('break' in place of 'raise'), so the run goes on with what it has
FetchPageTruncating(p) ==
    /\ pc[p] = "fetch_page"
    /\ \E ok \in BOOLEAN :
         IF ok
         THEN LET events == EventsPage(start_date[p], page[p])
              IN  /\ buffer' = [buffer EXCEPT ![p] = events]
                  /\ fetched' = [fetched EXCEPT ![p] = @ \o events]
                  /\ Goto(p, IF events = <<>> THEN "after_loop" ELSE "replay")
         ELSE /\ pc' = [pc EXCEPT ![p] = "after_loop"]
              /\ err' = [err EXCEPT ![p] = "fetch"]
              /\ envFault' = [envFault EXCEPT ![p] = TRUE]
              /\ UNCHANGED <<exit, buffer, fetched>>
    /\ UNCHANGED <<envVars, remote, pushed, pushFailed, warned, DEFAULT_START_DATE, base,
                   cloneVars, start_date, page, commit_count, last_event_date, writes>>

\* session.get(url, timeout=10) for the current page: an error is re-raised,
\* an empty page ends the stream, any other page is yielded event by event
FetchPage(p) ==
    /\ pc[p] = "fetch_page"
    /\ \E ok \in BOOLEAN :
         IF ok
         THEN LET events == EventsPage(start_date[p], page[p])
              IN  /\ buffer' = [buffer EXCEPT ![p] = events]
                  /\ fetched' = [fetched EXCEPT ![p] = @ \o events]
                  /\ Goto(p, IF events = <<>> THEN "after_loop" ELSE "replay")
         ELSE /\ Raise(p, "fetch", TRUE)
              /\ UNCHANGED <<buffer, fetched>>
    /\ UNCHANGED <<envVars, remote, pushed, pushFailed, warned, DEFAULT_START_DATE, base,
                   cloneVars, start_date, page, commit_count, last_event_date, writes>>

\* mutant of NextPage: the page index is not advanced
NextPageStuck(n) == n

\* page += 1, after the last event of a page was yielded
NextPage(n) == n + 1

\* ------------------------------------------ sync_events_and_update_state
\* mutant of ReplayEvent: an event with the created_at of the event before it
\* is taken for a repetition and gets no commit
ReplayEventSkippingTies(p) ==
    /\ pc[p] = "replay"
    /\ buffer[p] # <<>>
    /\ LET event == Head(buffer[p])
           rest  == Tail(buffer[p])
       IN  \E ok \in BOOLEAN :
             IF ok
             THEN /\ IF event.created_at = last_event_date[p]
                     THEN UNCHANGED <<target, sync, commit_count>>
                     ELSE /\ CommitOnHead(p, EventCommit(event), HeadBranch(p).file)
                          /\ commit_count' = [commit_count EXCEPT ![p] = @ + 1]
                  /\ last_event_date' = [last_event_date EXCEPT ![p] = event.created_at]
                  /\ buffer' = [buffer EXCEPT ![p] = rest]
                  /\ page' = [page EXCEPT ![p] = IF rest = <<>> THEN page[p] + 1 ELSE @]
                  /\ Goto(p, IF rest = <<>> THEN "fetch_page" ELSE "replay")
             ELSE /\ Raise(p, "commit", TRUE)
                  /\ UNCHANGED <<target, sync, last_event_date, commit_count,
                                 buffer, page>>
    /\ UNCHANGED <<envVars, remote, pushed, pushFailed, warned, DEFAULT_START_DATE, base,
                   syncExists, head, workFile, index, start_date, fetched, writes>>

\* the body of 'for event in events': one empty commit for the next event;
\* after the last event of a page the generator moves to the next page
ReplayEvent(p) ==
    /\ pc[p] = "replay"
    /\ buffer[p] # <<>>
    /\ LET event == Head(buffer[p])
           rest  == Tail(buffer[p])
       IN  \E ok \in BOOLEAN :
             IF ok
             THEN /\ CommitOnHead(p, EventCommit(event), HeadBranch(p).file)
                  /\ last_event_date' = [last_event_date EXCEPT ![p] = event.created_at]
                  /\ commit_count' = [commit_count EXCEPT ![p] = @ + 1]
                  /\ buffer' = [buffer EXCEPT ![p] = rest]
                  /\ page' = [page EXCEPT ![p] = IF rest = <<>> THEN NextPage(@) ELSE @]
                  /\ Goto(p, IF rest = <<>> THEN "fetch_page" ELSE "replay")
             ELSE /\ Raise(p, "commit", TRUE)
                  /\ UNCHANGED <<target, sync, last_event_date, commit_count,
                                 buffer, page>>
    /\ UNCHANGED <<envVars, remote, pushed, pushFailed, warned, DEFAULT_START_DATE, base,
                   syncExists, head, workFile, index, start_date, fetched, writes>>

\* mutant of WriteState: the test 'commit_count == 0' is missing, the state
\* file is written whatever was replayed
WriteStateAlways(p) ==
    /\ pc[p] = "after_loop"
    /\ workFile' = [workFile EXCEPT ![p] =
          CursorFile(NextStartDate(last_event_date[p]))]
    /\ writes' = [writes EXCEPT ![p] = @ + 1]
    /\ Goto(p, "git_add")
    /\ UNCHANGED <<envVars, remote, pushed, pushFailed, warned, DEFAULT_START_DATE, base,
                   target, sync, syncExists, head, index,
                   start_date, page, buffer, commit_count, last_event_date, fetched>>

\* after the loop: return 0 when nothing was committed, otherwise
\* state_file_path.write_text(<last_event_date + 1 second>)
WriteState(p) ==
    /\ pc[p] = "after_loop"
    /\ IF commit_count[p] = 0
       THEN Goto(p, "cleanup_checkout") /\ UNCHANGED <<workFile, writes>>
       ELSE \E ok \in BOOLEAN :
              IF ok
              THEN /\ workFile' = [workFile EXCEPT ![p] =
                         CursorFile(NextStartDate(last_event_date[p]))]
                   /\ writes' = [writes EXCEPT ![p] = @ + 1]
                   /\ Goto(p, "git_add")
              ELSE Raise(p, "write", TRUE) /\ UNCHANGED <<workFile, writes>>
    /\ UNCHANGED <<envVars, remote, pushed, pushFailed, warned, DEFAULT_START_DATE, base,
                   target, sync, syncExists, head, index,
                   start_date, page, buffer, commit_count, last_event_date, fetched>>

\* git add <STATE_FILE>
GitAdd(p) ==
    /\ pc[p] = "git_add"
    /\ \E ok \in BOOLEAN :
         IF ok
         THEN index' = [index EXCEPT ![p] = workFile[p]] /\ Goto(p, "marker")
         ELSE Raise(p, "add", TRUE) /\ UNCHANGED index
    /\ UNCHANGED <<envVars, remote, pushed, pushFailed, warned, DEFAULT_START_DATE, base,
                   target, sync, syncExists, head, workFile, loopVars>>

\* mutant of CommitMarker: the exit code of 'git diff' is tested the wrong way
\* round, and the staged cursor is not committed
CommitMarkerSkipped(p) ==
    /\ pc[p] = "marker"
    /\ Goto(p, "merge_checkout")
    /\ UNCHANGED <<envVars, remote, pushed, pushFailed, warned, DEFAULT_START_DATE,
                   base, cloneVars, loopVars>>

\* git diff --cached --quiet; on exit code 1 (staged changes)
\* git commit -m 'CI: Update sync marker to <last_event_date>'; return commit_count
CommitMarker(p) ==
    /\ pc[p] = "marker"
    /\ IF index[p] # HeadBranch(p).file
       THEN \E ok \in BOOLEAN :
              IF ok
              THEN /\ CommitOnHead(p, MarkerCommit(last_event_date[p]), index[p])
                   /\ Goto(p, "merge_checkout")
              ELSE Raise(p, "marker", TRUE) /\ UNCHANGED <<target, sync>>
       ELSE Goto(p, "merge_checkout") /\ UNCHANGED <<target, sync>>
    /\ UNCHANGED <<envVars, remote, pushed, pushFailed, warned, DEFAULT_START_DATE, base,
                   syncExists, head, workFile, index, loopVars>>

\* ------------------------------------------------- main, after the replay
\* 'if not commit_count': git checkout <TARGET_BRANCH>; a failure is only
\* warned about, and main() goes on below the 'if'
CleanupCheckout(p) ==
    /\ pc[p] = "cleanup_checkout"
    /\ \E ok \in BOOLEAN :
         IF ok
         THEN /\ Checkout(p, "target", target[p])
              /\ pc' = [pc EXCEPT ![p] = "cleanup_delete"]
              /\ UNCHANGED <<envFault, warned>>
         ELSE /\ pc' = [pc EXCEPT ![p] = "merge_checkout"]
              /\ envFault' = [envFault EXCEPT ![p] = TRUE]
              /\ warned' = [warned EXCEPT ![p] = TRUE]
              /\ UNCHANGED <<head, workFile, index>>
    /\ UNCHANGED <<envVars, remote, exit, err, pushed, pushFailed, DEFAULT_START_DATE, base,
                   target, sync, syncExists, loopVars>>

\* mutant of CleanupDelete: a failed 'git branch -D' is re-raised
CleanupDeleteFatal(p) ==
    /\ pc[p] = "cleanup_delete"
    /\ \E ok \in BOOLEAN :
         IF ok
         THEN /\ syncExists' = [syncExists EXCEPT ![p] = FALSE]
              /\ pc' = [pc EXCEPT ![p] = "merge_checkout"]
              /\ UNCHANGED <<exit, err, envFault, warned>>
         ELSE /\ Raise(p, "cleanup", TRUE)
              /\ warned' = [warned EXCEPT ![p] = TRUE]
              /\ UNCHANGED syncExists
    /\ UNCHANGED <<envVars, remote, pushed, pushFailed, DEFAULT_START_DATE, base,
                   target, sync, head, workFile, index, loopVars>>

\* 'if not commit_count': git branch -D <branch_name>; a failure is only
\* warned about; either way main() goes on below the 'if'
CleanupDelete(p) ==
    /\ pc[p] = "cleanup_delete"
    /\ \E ok \in BOOLEAN :
         IF ok
         THEN /\ syncExists' = [syncExists EXCEPT ![p] = FALSE]
              /\ UNCHANGED <<envFault, warned>>
         ELSE /\ envFault' = [envFault EXCEPT ![p] = TRUE]
              /\ warned' = [warned EXCEPT ![p] = TRUE]
              /\ UNCHANGED syncExists
    /\ pc' = [pc EXCEPT ![p] = "merge_checkout"]
    /\ UNCHANGED <<envVars, remote, exit, err, pushed, pushFailed, DEFAULT_START_DATE, base,
                   target, sync, head, workFile, index, loopVars>>

\* git checkout <TARGET_BRANCH> before the merge
MergeCheckout(p) ==
    /\ pc[p] = "merge_checkout"
    /\ \E ok \in BOOLEAN :
         IF ok
         THEN Checkout(p, "target", target[p]) /\ Goto(p, "merge")
         ELSE Raise(p, "merge", TRUE) /\ UNCHANGED <<head, workFile, index>>
    /\ UNCHANGED <<envVars, remote, pushed, pushFailed, warned, DEFAULT_START_DATE, base,
                   target, sync, syncExists, loopVars>>

\* git merge --no-ff <branch_name>: git refuses a branch that does not exist
Merge(p) ==
    /\ pc[p] = "merge"
    /\ IF ~syncExists[p]
       THEN Raise(p, "merge", FALSE) /\ UNCHANGED <<target, workFile, index>>
       ELSE \E ok \in BOOLEAN :
              IF ok
              THEN LET merged == MergeNoFF(target[p], sync[p], BranchName(p))
                   IN  /\ target' = [target EXCEPT ![p] = merged]
                       /\ workFile' = [workFile EXCEPT ![p] = merged.file]
                       /\ index' = [index EXCEPT ![p] = merged.file]
                       /\ Goto(p, "push")
              ELSE Raise(p, "merge", TRUE) /\ UNCHANGED <<target, workFile, index>>
    /\ UNCHANGED <<envVars, remote, pushed, pushFailed, warned, DEFAULT_START_DATE, base,
                   sync, syncExists, head, loopVars>>

\* git push origin <TARGET_BRANCH>: the remote rejects what is no fast-forward
Push(p) ==
    /\ pc[p] = "push"
    /\ pushed' = [pushed EXCEPT ![p] = TRUE]
    /\ \E ok \in BOOLEAN :
         IF ok /\ PushAccepted(target[p])
         THEN /\ remote' = target[p]
              /\ Goto(p, "delete_branch")
              /\ UNCHANGED pushFailed
         ELSE /\ Raise(p, "push", ~ok)
              /\ pushFailed' = TRUE
              /\ UNCHANGED remote
    /\ UNCHANGED <<envVars, warned, DEFAULT_START_DATE, base, cloneVars, loopVars>>

\* git branch -D <branch_name>; a failure is only warned about; main() returns
DeleteBranch(p) ==
    /\ pc[p] = "delete_branch"
    /\ \E ok \in BOOLEAN :
         IF ok
         THEN /\ syncExists' = [syncExists EXCEPT ![p] = FALSE]
              /\ UNCHANGED <<envFault, warned>>
         ELSE /\ envFault' = [envFault EXCEPT ![p] = TRUE]
              /\ warned' = [warned EXCEPT ![p] = TRUE]
              /\ UNCHANGED syncExists
    /\ pc' = [pc EXCEPT ![p] = "done"]
    /\ exit' = [exit EXCEPT ![p] = 0]
    /\ UNCHANGED <<envVars, remote, err, pushed, pushFailed, DEFAULT_START_DATE, base,
                   target, sync, head, workFile, index, loopVars>>

\* one step of invocation p
Run(p) ==
    \/ Start(p)
    \/ Clone(p)
    \/ FetchOrigin(p)
    \/ CheckoutTarget(p)
    \/ Pull(p)
    \/ CreateBranch(p)
    \/ ReadState(p)
    \/ FetchPage(p)
    \/ ReplayEvent(p)
    \/ WriteState(p)
    \/ GitAdd(p)
    \/ CommitMarker(p)
    \/ CleanupCheckout(p)
    \/ CleanupDelete(p)
    \/ MergeCheckout(p)
    \/ Merge(p)
    \/ Push(p)
    \/ DeleteBranch(p)

Next ==
    \/ Tick
    \/ NewEvent
    \/ \E p \in Runners : Run(p)

Spec == Init /\ [][Next]_vars

\* an invocation that has started is not suspended for ever: every command it
\* runs returns or times out, and the interpreter goes on to the next statement
\* the same program, started either with an empty source or with the source of
\* the tie scenario
SpecTies == (Init \/ InitTies) /\ [][Next]_vars

\* the same program, run against a repository whose state file is empty
SpecBlank == InitBlank /\ [][Next]_vars

SpecLive == Spec /\ \A p \in Runners : WF_vars(Run(p))

\* two invocations started close together against the same repository, each
\* run once; events may still arrive while they run
RaceRun(p) == pc[p] # "done" /\ Run(p)

NextRace ==
    \/ NewEvent
    \/ \E p \in Procs : RaceRun(p)

SpecRace == Init /\ [][NextRace]_vars

\* ------------------------------------------------------------ properties
\* the synthetic commits of a log, in log order
EventCommits(log) == SelectSeq(log, LAMBDA c : c.kind = "event")

\* the commits this run has put on its sync branch
RunCommits(p) == SubSeq(sync[p].log, Len(base[p].log) + 1, Len(sync[p].log))

\* created_at of the source event with this id
CreatedAt(id) == source[id].created_at

\* the run is over and the event stream was consumed to its end without an event
NoOpRunDone(p) ==
    /\ pc[p] = "done"
    /\ commit_count[p] = 0
    /\ err[p] \notin {"clone", "prepare", "branch", "read", "fetch"}

\* C1: a run whose event stream yields no event, with no command failing by
\* the environment's doing, ends on the target branch, with the sync branch
\* deleted and exit status 0.
C1_NoOpRunExitsZero ==
    \A p \in Runners :
        (NoOpRunDone(p) /\ ~envFault[p])
            => (exit[p] = 0 /\ head[p] = "target" /\ ~syncExists[p])

\* C2: when 'git commit --allow-empty' fails on an event, the run ends with
\* exit status 1, nothing was merged or pushed, and none of the commits the
\* run made is on the target branch, neither in the clone nor on the remote.
C2_CommitFailureLeavesTargetAlone ==
    \A p \in Runners :
        err[p] = "commit" =>
            /\ pc[p] = "done" /\ exit[p] = 1
            /\ ~pushed[p]
            /\ target[p] = base[p]
            /\ remote = base[p]
            /\ Len(RunCommits(p)) = commit_count[p]
            /\ \A i \in 1..Len(RunCommits(p)) :
                 /\ \A j \in 1..Len(target[p].log) : target[p].log[j] # RunCommits(p)[i]
                 /\ \A j \in 1..Len(remote.log) : remote.log[j] # RunCommits(p)[i]

\* C2 witness: the commit failed after earlier events of the run were committed
C2_Witness ==
    \E p \in Runners : err[p] = "commit" /\ commit_count[p] >= 2

\* C3: when the fetch of a page fails, the run ends with exit status 1, the
\* state file is not written, nothing is merged or pushed, and the target
\* branch has no new commit and the cursor it had.
C3_FetchFailureLeavesTargetAlone ==
    \A p \in Runners :
        err[p] = "fetch" =>
            /\ pc[p] = "done" /\ exit[p] = 1
            /\ ~pushed[p]
            /\ workFile[p] = base[p].file
            /\ index[p] = base[p].file
            /\ target[p] = base[p]
            /\ remote = base[p]

\* C3 witness: a later page failed after a first page was replayed
C3_Witness ==
    \E p \in Runners : err[p] = "fetch" /\ page[p] >= 2 /\ commit_count[p] >= 1

\* C7: a run that found no new event creates no commit and never pushes.
C7_NoOpRunNeverPushes ==
    \A p \in Runners :
        NoOpRunDone(p) => (~pushed[p] /\ sync[p].log = base[p].log)

\* C8: the push comes only after a successful merge; when the merge or the
\* checkout before it fails there is no push, the exit status is 1 and the
\* sync branch still exists.
C8_MergeFailureKeepsSyncBranch ==
    \A p \in Runners :
        /\ pushed[p] => target[p] = MergeNoFF(base[p], sync[p], BranchName(p))
        /\ err[p] = "merge" => (exit[p] = 1 /\ ~pushed[p] /\ syncExists[p])


\* the run is past the event loop and replayed nothing
NoOpRun(p) ==
    \/ NoOpRunDone(p)
    \/ /\ commit_count[p] = 0
       /\ pc[p] \in {"cleanup_checkout", "cleanup_delete", "merge_checkout",
                     "merge", "push", "delete_branch"}

\* the run ended with exit status 0 after replaying at least one event
PublishingRunDone(p) == pc[p] = "done" /\ exit[p] = 0 /\ commit_count[p] >= 1

\* the latest created_at among the events the run replayed
RECURSIVE MaxCreatedAt(_)
MaxCreatedAt(commits) ==
    IF commits = <<>> THEN NoDate
    ELSE LET c    == Head(commits)
             rest == MaxCreatedAt(Tail(commits))
             mine == IF c.kind = "event" THEN CreatedAt(c.id) ELSE NoDate
         IN  IF mine > rest THEN mine ELSE rest

\* C4 (as stated): after a successful run that replayed an event, the cursor
\* in the state file is max(created_at of the replayed events) + 1 second and
\* is greater than the cursor the run started from.
C4_CursorIsMaxPlusOneSecond ==
    \A p \in Runners :
        PublishingRunDone(p) =>
            /\ remote.file = CursorFile(MaxCreatedAt(RunCommits(p)) + TicksPerSec)
            /\ remote.file.at > start_date[p]

\* C4 (amended): after a successful run that replayed an event, the cursor in
\* the state file is max(created_at of the replayed events), cut to the whole
\* second, + 1 second, and is greater than the cursor the run started from.
C4_CursorIsTruncatedMaxPlusOneSecond ==
    \A p \in Runners :
        PublishingRunDone(p) =>
            LET cursor == Truncate(MaxCreatedAt(RunCommits(p))) + TicksPerSec
            IN  /\ workFile[p] = CursorFile(cursor)
                /\ target[p].file = CursorFile(cursor)
                /\ remote.file = CursorFile(cursor)
                /\ cursor > start_date[p]
                /\ cursor > MaxCreatedAt(RunCommits(p))

\* C4 witness: a successful run whose last event has a sub-second created_at
C4_Witness ==
    \E p \in Runners :
        /\ PublishingRunDone(p)
        /\ MaxCreatedAt(RunCommits(p)) % TicksPerSec # 0
        /\ base[p].file.kind = "cursor"

\* every event the source holds has its synthetic commit on this log
AllReplayedOn(log) ==
    \A k \in 1..Len(source) :
        \E j \in 1..Len(log) : log[j].kind = "event" /\ log[j].id = k

\* C5: the events a successful run replayed lie before the advanced cursor,
\* so the 'after' filter of the next run excludes them: a run never replays
\* an event its target branch already has, and a run that starts when every
\* event of the source was already replayed creates no commit and leaves the
\* cursor as it is.
C5_SecondRunIsIdle ==
    /\ \A j \in 1..Len(remote.log) :
         remote.log[j].kind = "event" =>
            /\ remote.file.kind = "cursor"
            /\ CreatedAt(remote.log[j].id) < remote.file.at
            /\ \A e \in 1..Len(EventsAfter(remote.file.at)) :
                 EventsAfter(remote.file.at)[e].id # remote.log[j].id
    /\ \A p \in Runners :
         /\ \A i \in 1..Len(RunCommits(p)) : \A j \in 1..Len(base[p].log) :
              RunCommits(p)[i].kind = "event" => RunCommits(p)[i].id # base[p].log[j].id
         /\ (syncExists[p] /\ AllReplayedOn(base[p].log)) =>
              /\ commit_count[p] = 0
              /\ RunCommits(p) = <<>>
              /\ workFile[p] = base[p].file
              /\ remote = base[p]

\* C5 witness: a second run has gone through the whole (empty) stream after a
\* first run published every event of the source
C5_Witness ==
    \E p \in Runners :
        /\ pc[p] = "cleanup_checkout"
        /\ Len(source) >= 2
        /\ AllReplayedOn(base[p].log)
        /\ start_date[p] = base[p].file.at

\* C6: a run that fetched no event leaves the target branch, in the clone and
\* on the remote, and the state file as they were, on every path it takes.
C6_NoOpRunChangesNothing ==
    \A p \in Runners :
        NoOpRun(p) =>
            /\ target[p] = base[p]
            /\ remote = base[p]
            /\ workFile[p] = base[p].file
            /\ index[p] = base[p].file

\* C6 witness: a no-op run whose cleanup failed went through merge and push
C6_Witness ==
    \E p \in Runners :
        NoOpRunDone(p) /\ warned[p] /\ pushed[p] /\ exit[p] = 0 /\ base[p].log # <<>>

\* the cursor a run reads from a state file
CursorOf(file, default) == IF file.kind = "absent" THEN default ELSE file.at

\* C9: a failed push ends the run with exit status 1 and leaves the remote
\* target branch and its cursor as they were; every run works on the remote
\* branch as it is and starts from its cursor; and no event has two synthetic
\* commits on the remote target branch.
C9_FailedPushIsRepeatable ==
    /\ \A p \in Runners :
         /\ err[p] = "push" => (pc[p] = "done" /\ exit[p] = 1 /\ remote = base[p])
         /\ pc[p] \in {"fetch_page", "replay", "after_loop", "git_add", "marker",
                       "merge_checkout", "merge", "push"} =>
              /\ base[p] = remote
              /\ start_date[p] = CursorOf(remote.file, DEFAULT_START_DATE[p])
    /\ \A i, j \in 1..Len(remote.log) :
         (i # j /\ remote.log[i].kind = "event" /\ remote.log[j].kind = "event")
            => remote.log[i].id # remote.log[j].id

\* C9 witness: after a failed push, a later run has published the events
C9_Witness ==
    \E p \in Runners :
        /\ pushFailed
        /\ PublishingRunDone(p)
        /\ Len(EventCommits(remote.log)) >= 2

\* the cursor that belongs to the last synthetic commit of a log
CursorFor(log, Advance(_)) ==
    LET events == EventCommits(log)
    IN  IF events = <<>> THEN Absent
        ELSE CursorFile(Advance(CreatedAt(events[Len(events)].id)))

OneSecondLater(t) == t + TicksPerSec
NextWholeSecond(t) == Truncate(t) + TicksPerSec

\* C10 (as stated): the cursor on the remote target branch is always one
\* second past the created_at of the last event with a commit on that branch.
C10_RemoteCursorIsLastPlusOneSecond ==
    remote.file = CursorFor(remote.log, OneSecondLater)

\* C10 (amended): the cursor on the remote target branch is always the
\* created_at of the last event with a commit on that branch, cut to the whole
\* second, + 1 second; with no such commit there is no cursor file.
C10_RemoteCursorMatchesCommits ==
    /\ remote.file = CursorFor(remote.log, NextWholeSecond)
    /\ remote.log # <<>> =>
         /\ remote.log[Len(remote.log)].kind = "merge"
         /\ remote.log[Len(remote.log) - 1] =
              MarkerCommit(CreatedAt(EventCommits(remote.log)[Len(EventCommits(remote.log))].id))

\* C10 witness: two runs have published, the second moved the cursor again
C10_Witness ==
    /\ Len(SelectSeq(remote.log, LAMBDA c : c.kind = "merge")) >= 2
    /\ remote.file.kind = "cursor"

\* C11: on the target branch the synthetic commit of an event with an earlier
\* created_at comes before that of an event with a later created_at, within
\* one run (sync branch, local target) and across runs (remote).
OrderedByCreatedAt(log) ==
    \A i, j \in 1..Len(log) :
        (/\ log[i].kind = "event" /\ log[j].kind = "event"
         /\ CreatedAt(log[i].id) < CreatedAt(log[j].id)) => i < j

C11_OrderPreserved ==
    /\ OrderedByCreatedAt(remote.log)
    /\ \A p \in Runners :
         OrderedByCreatedAt(sync[p].log) /\ OrderedByCreatedAt(target[p].log)

\* C11 witness: the remote has events of two runs, with different created_at
C11_Witness ==
    \E i, m, j \in 1..Len(remote.log) :
        /\ i < m /\ m < j
        /\ remote.log[i].kind = "event"
        /\ remote.log[m].kind = "merge"
        /\ remote.log[j].kind = "event"
        /\ CreatedAt(remote.log[i].id) < CreatedAt(remote.log[j].id)
        /\ \E k \in 1..Len(remote.log) :
             k # i /\ k < m /\ remote.log[k].kind = "event"

\* C12: a run writes the state file at most once, and only after the event
\* stream ended at an empty page, without error, with an event replayed; a run
\* that replayed nothing or was aborted in the replay has not written it.
C12_StateFileWrittenOnce ==
    \A p \in Runners :
        /\ writes[p] <= 1
        /\ writes[p] = 1 =>
             /\ commit_count[p] >= 1
             /\ buffer[p] = <<>>
             /\ Len(fetched[p]) = commit_count[p]
             /\ pc[p] \notin {"fetch_page", "replay", "after_loop"}
             /\ err[p] \notin {"fetch", "commit", "write"}
             /\ pc[p] = "git_add" => workFile[p].kind = "cursor"
        /\ (commit_count[p] = 0 \/ err[p] \in {"fetch", "commit"}) =>
             (writes[p] = 0 /\ (syncExists[p] => workFile[p] = base[p].file))

\* C12 witness: a run that replayed two pages has written the state file once
C12_Witness ==
    \E p \in Runners :
        writes[p] = 1 /\ pc[p] = "git_add" /\ page[p] >= 3

\* no event has two synthetic commits on this log
NoDoubleReplication(log) ==
    \A i, j \in 1..Len(log) :
        (i # j /\ log[i].kind = "event" /\ log[j].kind = "event")
            => log[i].id # log[j].id

\* the push of this run was invoked and the remote took it
PushTaken(p) == pushed[p] /\ err[p] # "push"

\* C13: of two runs that cloned the same tip and read the same cursor, at most
\* one has its push taken, the other is rejected and exits with status 1; and
\* the remote never holds an event twice or a cursor that does not match.
C13_SecondPushRejected ==
    /\ \A p, q \in Procs :
         (/\ p # q /\ pushed[p] /\ pushed[q]
          /\ base[p] = base[q] /\ start_date[p] = start_date[q])
            => \/ ~PushTaken(p) /\ exit[p] = 1
               \/ ~PushTaken(q) /\ exit[q] = 1
    /\ NoDoubleReplication(remote.log)
    /\ remote.file = CursorFor(remote.log, NextWholeSecond)

\* what holds of the race: the remote is never corrupted, and of two runs that
\* both replayed an event at most one has its push taken
RaceIsSafe ==
    /\ \A p, q \in Procs :
         (/\ p # q /\ pushed[p] /\ pushed[q]
          /\ commit_count[p] >= 1 /\ commit_count[q] >= 1)
            => \/ ~PushTaken(p) /\ exit[p] = 1
               \/ ~PushTaken(q) /\ exit[q] = 1
    /\ NoDoubleReplication(remote.log)
    /\ remote.file = CursorFor(remote.log, NextWholeSecond)

\* C14: in a run that replayed nothing, a failed 'git checkout' or 'git branch
\* -D' of the cleanup is only warned about: the run goes on, and it ends with
\* exit status 0 unless a later merge or push command fails.
C14_CleanupFailureNotFatal ==
    \A p \in Runners :
        /\ (commit_count[p] = 0 /\ warned[p] /\ pc[p] # "done")
              => (exit[p] = -1 /\ err[p] = "none")
        /\ (NoOpRunDone(p) /\ warned[p])
              => \/ err[p] = "none" /\ exit[p] = 0
                 \/ err[p] \in {"merge", "push"} /\ exit[p] = 1 /\ syncExists[p]

\* C14 witness: a no-op run whose cleanup failed has ended with exit status 0
C14_Witness ==
    \E p \in Runners :
        /\ NoOpRunDone(p) /\ warned[p] /\ exit[p] = 0
        /\ head[p] = "target" /\ ~syncExists[p]

\* the ids of a sequence of events or of event commits
EventIds(events) == [k \in 1..Len(events) |-> events[k].id]

\* what the stream has handed out so far: the events already replayed, then
\* the events of the current page still to come
StreamInOrder(p) ==
    /\ EventIds(EventCommits(RunCommits(p))) \o EventIds(buffer[p])
          = EventIds(fetched[p])
    /\ \A i, j \in 1..Len(fetched[p]) :
          i < j => fetched[p][i].id < fetched[p][j].id

\* the page index counts the non-empty pages received, plus one
PageIndexCounts(p) ==
    /\ page[p] >= 1
    /\ pc[p] = "fetch_page" =>
          /\ buffer[p] = <<>>
          /\ page[p] - 1 <= Len(fetched[p])
          /\ Len(fetched[p]) <= (page[p] - 1) * COMMITS_PER_PAGE
    /\ pc[p] = "replay" =>
          /\ buffer[p] # <<>>
          /\ Len(buffer[p]) <= COMMITS_PER_PAGE
          /\ page[p] - 1 <= Len(fetched[p]) - Len(buffer[p])
          /\ Len(fetched[p]) <= page[p] * COMMITS_PER_PAGE
    /\ pc[p] = "after_loop" =>
          /\ buffer[p] = <<>>
          /\ err[p] = "none" /\ exit[p] = -1

\* a step of the stream: a non-empty page is handed out whole and keeps the
\* page index, an empty page ends the stream, and the index moves, by one,
\* only when the last event of a page has been replayed
PageStep(p) ==
    /\ (pc[p] = "fetch_page" /\ pc'[p] = "replay") =>
          /\ buffer'[p] = EventsPage(start_date[p], page[p])
          /\ buffer'[p] # <<>>
          /\ fetched'[p] = fetched[p] \o buffer'[p]
          /\ page'[p] = page[p]
    /\ (pc[p] = "fetch_page" /\ pc'[p] = "after_loop") =>
          /\ EventsPage(start_date[p], page[p]) = <<>>
          /\ fetched'[p] = fetched[p]
          /\ page'[p] = page[p]
    /\ page'[p] # page[p] =>
          \/ page'[p] = 1 /\ pc[p] \in {"start", "done", "read_state"}
          \/ /\ pc[p] = "replay" /\ Len(buffer[p]) = 1 /\ pc'[p] = "fetch_page"
             /\ page'[p] = page[p] + 1

\* C15: the stream asks for page 1, 2, 3, ..., moving to the next page only
\* after a non-empty one; it hands out every event of every page it received
\* once, in page order and in-page order; it ends without an error at the first
\* empty page; and a run that has entered the stream always comes to its end.
C15_StreamPagesAndTerminates ==
    /\ [](\A p \in Runners : StreamInOrder(p) /\ PageIndexCounts(p))
    /\ [][\A p \in Runners : PageStep(p)]_vars
    /\ \A p \in Runners : (pc[p] \in {"fetch_page", "replay"}) ~> (pc[p] = "done")

\* C15 witness: the stream has ended at the empty third page, after a full
\* page and a partial one
C15_Witness ==
    \E p \in Runners :
        /\ pc[p] = "after_loop" /\ page[p] = 3
        /\ Len(fetched[p]) = COMMITS_PER_PAGE + 1 /\ commit_count[p] = Len(fetched[p])

\* the dates of the event commits of a log
CommitDates(log) == [k \in 1..Len(log) |-> log[k].at]

\* C16: the replay makes one commit per event the stream hands out, in that
\* order, whatever their created_at: the commit count is the number of events
\* handed out, and for events at 10:00:00Z, 10:00:05Z and 10:00:05Z there are
\* three commits in that order and the cursor written is 10:00:06Z.
C16_OneCommitPerEvent ==
    \A p \in Runners :
        LET made == EventCommits(RunCommits(p))
        IN  /\ commit_count[p] = Len(made)
            /\ EventIds(made) \o EventIds(buffer[p]) = EventIds(fetched[p])
            /\ pc[p] \in {"after_loop", "git_add", "marker"} =>
                  /\ commit_count[p] = Len(fetched[p])
                  /\ \A k \in 1..Len(made) : made[k] = EventCommit(fetched[p][k])
            /\ (pc[p] = "git_add" /\ fetched[p] = TiesSource) =>
                  /\ EventIds(made) = <<1, 2, 3>>
                  /\ CommitDates(made) = <<0, 5 * TicksPerSec, 5 * TicksPerSec>>
                  /\ commit_count[p] = 3
                  /\ workFile[p] = CursorFile(6 * TicksPerSec)

\* C16 witness: the three events of the tie scenario have been replayed and
\* the cursor written
C16_Witness ==
    \E p \in Runners :
        /\ pc[p] = "git_add" /\ fetched[p] = TiesSource
        /\ commit_count[p] = 3 /\ workFile[p].kind = "cursor"

\* C17: the cursor a run hands to the event stream is the stored cursor when
\* the state file is there and not empty, and the default otherwise; it is
\* never the empty string.
C17_StartCursorNeverEmpty ==
    \A p \in Runners :
        pc[p] \in {"fetch_page", "replay", "after_loop"} =>
            /\ start_date[p] = IF base[p].file.kind = "cursor"
                               THEN base[p].file.at
                               ELSE DEFAULT_START_DATE[p]
            /\ start_date[p] # EmptySince

\* from 'git checkout -b' to the end of the replay the sync branch is checked
\* out, and up to the merge the local target branch is as it was
TargetUntouchedBeforeMerge(p) ==
    /\ pc[p] \in {"read_state", "fetch_page", "replay", "after_loop", "git_add",
                  "marker"} =>
          (head[p] = "sync" /\ syncExists[p])
    /\ pc[p] \in {"read_state", "fetch_page", "replay", "after_loop", "git_add",
                  "marker", "cleanup_checkout", "cleanup_delete", "merge_checkout",
                  "merge"} =>
          target[p] = base[p]

\* a step that makes a commit puts it on the sync branch; once the sync
\* branch was created, only the merge moves the local target branch; and only
\* a push moves the remote one
OnlyMergeAndPushPublish ==
    /\ \A p \in Runners :
         /\ pc[p] \in {"replay", "marker"} =>
               /\ target'[p] = target[p]
               /\ sync'[p] # sync[p] =>
                     (head[p] = "sync" /\ IsPrefix(sync[p].log, sync'[p].log))
         /\ (target'[p] # target[p]
               /\ pc[p] \notin {"start", "done", "clone", "pull"}) =>
               /\ pc[p] = "merge"
               /\ target'[p] = MergeNoFF(base[p], sync[p], BranchName(p))
    /\ remote' # remote =>
          \E p \in Runners : pc[p] = "push" /\ remote' = target[p]

\* C18: event commits and the marker commit are made with the sync branch
\* checked out; from the creation of the sync branch to the merge the local
\* target branch does not move, it moves only by the merge of the sync branch,
\* and the remote target branch moves only by the push.
C18_CommitsOnSyncBranch ==
    /\ [](\A p \in Runners : TargetUntouchedBeforeMerge(p))
    /\ [][OnlyMergeAndPushPublish]_vars

\* C18 witness: the merge has moved the local target branch past where the
\* sync branch started, and the remote branch is still where it was
C18_Witness ==
    \E p \in Runners :
        /\ pc[p] = "push" /\ commit_count[p] >= 1
        /\ target[p] = MergeNoFF(base[p], sync[p], BranchName(p))
        /\ target[p] # base[p] /\ remote = base[p]

\* every commit of the sync branch is on the local target branch
SyncMerged(p) == IsPrefix(sync[p].log, target[p].log)

\* C19: when a run has ended with exit status 0, its sync branch is deleted,
\* or everything on it has been merged into the target branch.
C19_SyncBranchMergedOrDeleted ==
    \A p \in Runners :
        (pc[p] = "done" /\ exit[p] = 0) =>
            /\ base[p] = sync[p] \/ Len(sync[p].log) > Len(base[p].log)
            /\ ~syncExists[p] \/ SyncMerged(p)

\* C19 witness: a run that replayed an event has ended with exit status 0 and
\* its final 'git branch -D' failed, so the merged sync branch is still there
C19_Witness ==
    \E p \in Runners :
        /\ pc[p] = "done" /\ exit[p] = 0 /\ syncExists[p] /\ warned[p]
        /\ commit_count[p] >= 1 /\ target[p] # base[p] /\ SyncMerged(p)

\* event k of the source has a commit in this log
OnLog(log, k) == \E j \in 1..Len(log) : log[j].kind = "event" /\ log[j].id = k

\* event k has no commit on the remote target branch and the published cursor
\* is at or past its created_at: the 'after' filter of a run that starts from
\* this cursor leaves it out
Skipped(k) ==
    /\ ~OnLog(remote.log, k)
    /\ remote.file.kind = "cursor"
    /\ source[k].created_at <= remote.file.at

\* the second in which the invocation was started: DEFAULT_START_DATE is the
\* time of its import, cut to the second, minus the look-back
RunStart(p) ==
    DEFAULT_START_DATE[p] + DAYS_LOOKBACK * SECONDS_PER_DAY * TicksPerSec

\* C20 (as stated): no event of the source is skipped for good: an event that
\* has no commit on the remote target branch yet is still after the published
\* cursor, so that a later run fetches it; this includes an event that appears
\* between two runs within the second after the last event replayed.
C20_NoEventSkipped ==
    \A k \in 1..Len(source) : ~Skipped(k)

\* C20 (amended): no event has two commits on the remote target branch and
\* every event replayed there lies before the published cursor; a run that
\* ends with exit status 0 has published every event created after the cursor
\* it started from and before the second in which it was started; but an
\* event that is not replayed and lies at or before the published cursor,
\* such as one that appears within the second after the last event replayed,
\* is never replayed by a later run.
C20_ReplayedOnceSkippedForGood ==
    /\ [](/\ NoDoubleReplication(remote.log)
          /\ \A j \in 1..Len(remote.log) :
                remote.log[j].kind = "event" =>
                   /\ remote.file.kind = "cursor"
                   /\ CreatedAt(remote.log[j].id) < remote.file.at
          /\ \A p \in Runners :
                (pc[p] = "done" /\ exit[p] = 0) =>
                   \A k \in 1..Len(source) :
                      (/\ source[k].created_at > start_date[p]
                       /\ source[k].created_at < RunStart(p)) => OnLog(remote.log, k))
    /\ [][\A k \in 1..Len(source) : Skipped(k) => Skipped(k)']_vars

\* C20 witness: a run that was started after the event was created has ended
\* with exit status 0 and has published a later event, and the event, which
\* lies within the second before the cursor the run started from, is left out
C20_Witness ==
    \E k \in 1..Len(source) :
        /\ Skipped(k)
        /\ \E p \in Runners :
              /\ pc[p] = "done" /\ exit[p] = 0
              /\ source[k].created_at < RunStart(p)
              /\ start_date[p] >= source[k].created_at
              /\ start_date[p] - source[k].created_at <= TicksPerSec
              /\ \E n \in 1..Len(source) :
                    /\ source[n].created_at > start_date[p]
                    /\ source[n].created_at < RunStart(p)
                    /\ OnLog(RunCommits(p), n)

====
